---- MODULE Spec2Model ----
(***************************************************************************)
(* Model of the Mistral Codestral client (src/src/mistral.ts) and of its   *)
(* callers (src/src/index.ts, BusinessPlanMistralAPI).                     *)
(*                                                                         *)
(* JavaScript values are represented as follows:                           *)
(*   - an optional value (T | undefined) is a sequence of length 0 or 1;   *)
(*   - a credential is a sequence of one-character strings;                *)
(*   - an error message built by a template literal is the sequence of its *)
(*     pieces, so two messages are equal iff they have the same pieces;    *)
(*   - a JSON field of a response body is represented by its JS type.      *)
(***************************************************************************)
EXTENDS Integers, Sequences, FiniteSets, TLC

\* instance    the module's singleton slot (mistral.ts:245): <<>> or <<client>>
\* constructed the number of MistralAPI objects constructed so far
\* lastNew     the argument and outcome of the last run of the constructor
\* lastGet     the caller, argument and return value of the last getMistralAPI
\* started     whether the top level of index.ts has run
\* clock       Date.now()
\* calls       the invocations of the client's operations and where each is
\* last        the last settled call: its transport outcome and its result
\* request     the last request handed to the transport
\* prompt      the call of createPrompt: its arguments and its messages
\* formatted   the call of formatResponse: its completion and its result
\* handled     the tool call of index.ts: its request, where the handler is,
\*             and what it handed back
VARIABLES instance, constructed, lastNew, lastGet, started, clock, calls, last,
          request, prompt, formatted, handled

vars == <<instance, constructed, lastNew, lastGet, started, clock, calls, last,
          request, prompt, formatted, handled>>

(***************************************************************************)
(* Bounds of the model.                                                    *)
(***************************************************************************)
MaxKeyLen == 3
NumCalls == 2
MaxTicks == 4
TickMs == 50
StartClock == 1000
MaxChoices == 2
MaxCodeLen == 2
MaxSegments == 2

(***************************************************************************)
(* Strings: credentials.                                                   *)
(***************************************************************************)
Whitespace == {" ", "\t", "\n"}
KeyChars == {" ", "\t", "k"}

RECURSIVE SeqsUpTo(_, _)
SeqsUpTo(S, n) ==
    IF n = 0 THEN {<<>>}
    ELSE LET shorter == SeqsUpTo(S, n - 1)
         IN  shorter \cup {Append(s, x) : s \in {t \in shorter : Len(t) = n - 1}, x \in S}

Keys == SeqsUpTo(KeyChars, MaxKeyLen)

\* String.prototype.trimStart
RECURSIVE TrimStart(_)
TrimStart(s) ==
    IF s # <<>> /\ Head(s) \in Whitespace THEN TrimStart(Tail(s)) ELSE s

\* String.prototype.trimEnd
RECURSIVE TrimEnd(_)
TrimEnd(s) ==
    IF s # <<>> /\ s[Len(s)] \in Whitespace
    THEN TrimEnd(SubSeq(s, 1, Len(s) - 1))
    ELSE s

\* a trim that forgets the trailing whitespace
TrimLeadingOnly(s) == TrimStart(s)

\* String.prototype.trim, as used by the constructor
Trim(s) == TrimEnd(TrimStart(s))

(***************************************************************************)
(* MistralAPI: constructor and singleton.                                  *)
(***************************************************************************)
minRequestInterval == 100
initialLastRequestTime == 0

NoClient == <<>>

\* a constructor that does not check its argument
MistralAPIUnchecked(apiKey, id) ==
    <<[id |-> id,
       apiKey |-> Trim(apiKey),
       Authorization |-> <<"Bearer ">> \o Trim(apiKey),
       lastRequestTime |-> initialLastRequestTime]>>

\* new MistralAPI(apiKey): <<>> when the constructor throws
\* 'API key cannot be empty', else the one-element sequence of the object.
\* id is the identity of the object (its construction number).
MistralAPI(apiKey, id) ==
    IF apiKey = <<>> \/ Len(Trim(apiKey)) = 0
    THEN NoClient
    ELSE <<[id |-> id,
            apiKey |-> Trim(apiKey),
            Authorization |-> <<"Bearer ">> \o Trim(apiKey),
            lastRequestTime |-> initialLastRequestTime]>>

Callers == {"index", "BusinessPlanMistralAPI"}

NoGet == [caller |-> "none", arg |-> <<>>, outcome |-> "none", returned |-> NoClient,
          previous |-> "none"]
NoNew == [arg |-> <<>>, outcome |-> "none", client |-> NoClient]

\* getMistralAPI(apiKey), called from index.ts or from the constructor of
\* BusinessPlanMistralAPI.  The constructor runs only while the slot is null.
\* lastGet.previous is the outcome of the call before this one.
getMistralAPI(caller, apiKey) ==
    LET built == MistralAPI(apiKey, constructed + 1)
    IN  IF instance = NoClient
        THEN /\ lastNew' = [arg |-> apiKey,
                            outcome |-> IF built = NoClient THEN "ConfigError" ELSE "ok",
                            client |-> built]
             /\ IF built = NoClient
                THEN /\ UNCHANGED <<instance, constructed>>
                     /\ lastGet' = [caller |-> caller, arg |-> apiKey,
                                    outcome |-> "ConfigError", returned |-> NoClient,
                                    previous |-> lastGet.outcome]
                ELSE /\ instance' = built
                     /\ constructed' = constructed + 1
                     /\ lastGet' = [caller |-> caller, arg |-> apiKey,
                                    outcome |-> "ok", returned |-> built,
                                    previous |-> lastGet.outcome]
        ELSE /\ UNCHANGED <<instance, constructed, lastNew>>
             /\ lastGet' = [caller |-> caller, arg |-> apiKey,
                            outcome |-> "ok", returned |-> instance,
                            previous |-> lastGet.outcome]

\* index.ts start-up, run once when the module is loaded:
\* mistralApi = getMistralAPI(env.MISTRAL_API_KEY); the environment schema
\* (z.string().min(1)) admits only a non-empty key.  A failure ends the
\* process there; the model lets the other callers go on, which only adds the
\* behaviours of a process that does not load index.ts first.
IndexGetMistralAPI ==
    /\ ~started
    /\ started' = TRUE
    /\ \E k \in {x \in Keys : Len(x) >= 1} : getMistralAPI("index", k)
    /\ UNCHANGED <<clock, calls, last, request, prompt, formatted, handled>>

\* new BusinessPlanMistralAPI(apiKey)
BusinessPlanMistralAPI ==
    /\ \E k \in Keys : getMistralAPI("BusinessPlanMistralAPI", k)
    /\ UNCHANGED <<started, clock, calls, last, request, prompt, formatted, handled>>

(***************************************************************************)
(* Response bodies and the CompletionResponse schema.                      *)
(***************************************************************************)
JsTypes == {"string", "number", "undefined"}

Choice(index, role, content, finish) ==
    [index |-> index,
     message |-> [t |-> "object", role |-> role, content |-> content],
     finish_reason |-> finish]

GoodChoice == Choice("number", "string", "string", "string")

Usage(p, c, t) ==
    [t |-> "object", prompt_tokens |-> p, completion_tokens |-> c, total_tokens |-> t]

GoodUsage == Usage("number", "number", "number")
NoUsage == [t |-> "undefined", prompt_tokens |-> "undefined",
            completion_tokens |-> "undefined", total_tokens |-> "undefined"]

Body(id, object, created, model, choices, usage) ==
    [id |-> id, object |-> object, created |-> created, model |-> model,
     choices |-> choices, usage |-> usage]

Choices(items) == [t |-> "array", items |-> items]
NoChoices == [t |-> "undefined", items |-> <<>>]

\* a body with n well-formed choices
GoodBody(n) ==
    Body("string", "string", "number", "string",
         Choices([i \in 1..n |-> GoodChoice]), GoodUsage)

\* no body at all (a failure without a response)
NoBody == Body("undefined", "undefined", "undefined", "undefined", NoChoices, NoUsage)

\* the 2xx bodies the remote service is taken to send: the well-formed ones
\* and the ones with one field missing or of the wrong type
Bodies ==
    {GoodBody(n) : n \in 0..MaxChoices}
    \cup {[GoodBody(1) EXCEPT ![f] = t] :
            f \in {"id", "object", "created", "model"}, t \in JsTypes}
    \cup {[GoodBody(1) EXCEPT !.choices = NoChoices],
          [GoodBody(1) EXCEPT !.usage = NoUsage]}
    \cup {[GoodBody(1) EXCEPT !.usage = Usage(p, c, t)] :
            p \in {"number", "undefined"}, c \in {"number"}, t \in {"number", "string"}}
    \cup {[GoodBody(1) EXCEPT !.choices = Choices(<<Choice(i, r, c, f)>>)] :
            i \in {"number", "undefined"}, r \in {"string"},
            c \in {"string", "undefined"}, f \in JsTypes}
    \cup {[GoodBody(1) EXCEPT !.choices =
              Choices(<<[GoodChoice EXCEPT !.message.t = "undefined"]>>)]}

\* the issues of CompletionResponseSchema.parse(data): the paths whose value
\* is not of the type the schema requires (finish_reason is optional)
ChoiceIssues(c) ==
    (IF c.index # "number" THEN {"choices.index"} ELSE {})
    \cup (IF c.message.t # "object" THEN {"choices.message"}
          ELSE (IF c.message.role # "string" THEN {"choices.message.role"} ELSE {})
               \cup (IF c.message.content # "string"
                     THEN {"choices.message.content"} ELSE {}))
    \cup (IF c.finish_reason \notin {"string", "undefined"}
          THEN {"choices.finish_reason"} ELSE {})

SchemaIssues(data) ==
    (IF data.id # "string" THEN {"id"} ELSE {})
    \cup (IF data.object # "string" THEN {"object"} ELSE {})
    \cup (IF data.created # "number" THEN {"created"} ELSE {})
    \cup (IF data.model # "string" THEN {"model"} ELSE {})
    \cup (IF data.choices.t # "array" THEN {"choices"}
          ELSE UNION {ChoiceIssues(data.choices.items[i]) :
                        i \in 1..Len(data.choices.items)})
    \cup (IF data.usage.t # "object" THEN {"usage"}
          ELSE (IF data.usage.prompt_tokens # "number"
                THEN {"usage.prompt_tokens"} ELSE {})
               \cup (IF data.usage.completion_tokens # "number"
                     THEN {"usage.completion_tokens"} ELSE {})
               \cup (IF data.usage.total_tokens # "number"
                     THEN {"usage.total_tokens"} ELSE {}))

\* a schema that takes usage to be optional
SchemaIssuesUsageOptional(data) ==
    IF data.usage.t = "undefined"
    THEN SchemaIssues([data EXCEPT !.usage = GoodUsage])
    ELSE SchemaIssues(data)

CompletionResponseSchema(data) == SchemaIssues(data)

(***************************************************************************)
(* Transport outcomes (what awaiting this.client.get/post yields).         *)
(***************************************************************************)
Statuses == {400, 401, 429, 500, 502, 503}

\* `${status}` in a template literal
StatusText(status) ==
    IF status = <<>> THEN "undefined"
    ELSE CASE status[1] = 200 -> "200"
           [] status[1] = 400 -> "400"
           [] status[1] = 401 -> "401"
           [] status[1] = 429 -> "429"
           [] status[1] = 500 -> "500"
           [] status[1] = 502 -> "502"
           [] status[1] = 503 -> "503"
           [] OTHER -> "other"

\* error.response.data.error.message: absent, empty, or a text
RemoteMessages == {<<>>, <<"">>, <<"quota exceeded">>}

\* a 2xx response carrying data
Resolved(data) ==
    [type |-> "response", status |-> <<200>>, data |-> data,
     remote |-> <<>>, message |-> <<>>]

\* an AxiosError with a response of a non-2xx status; error.message is axios's
\* 'Request failed with status code N'
Rejected(status, remote) ==
    [type |-> "AxiosError", status |-> <<status>>, data |-> NoBody,
     remote |-> remote,
     message |-> <<"Request failed with status code ", StatusText(<<status>>)>>]

\* an AxiosError without a response (network failure, 30 s timeout)
NoResponse(message) ==
    [type |-> "AxiosError", status |-> <<>>, data |-> NoBody,
     remote |-> <<>>, message |-> <<message>>]

Failures ==
    {Rejected(st, r) : st \in Statuses, r \in RemoteMessages}
    \cup {NoResponse(m) : m \in {"Network Error", "timeout of 30000ms exceeded"}}

\* outcomes of POST /chat/completions and POST /fim/completions
Outcomes == {Resolved(b) : b \in Bodies} \cup Failures

\* outcomes of GET /models (the body of the model list is not inspected)
ProbeOutcomes == {Resolved(NoBody)} \cup Failures

\* JSON.stringify(error.response?.data) inside a template literal
Stringify(o) ==
    IF o.status = <<>> THEN <<"undefined">>
    ELSE IF o.remote = <<>> THEN <<"{}">>
    ELSE <<"{\"error\":{\"message\":\"", o.remote[1], "\"}}">>

(***************************************************************************)
(* Results: what an operation returns or throws.                           *)
(***************************************************************************)
Returned(kind, value) == [kind |-> kind, text |-> <<>>, value |-> value, issues |-> {}]
Thrown(kind, text) == [kind |-> kind, text |-> text, value |-> NoBody, issues |-> {}]
\* the ZodError thrown by CompletionResponseSchema.parse
ZodError(issues) ==
    [kind |-> "SchemaError", text |-> <<"ZodError.message">>, value |-> NoBody,
     issues |-> issues]

NoResult == Returned("none", NoBody)

\* error.response?.data?.error?.message || error.message
ErrorMessage(o) ==
    IF o.remote # <<>> /\ o.remote[1] # "" THEN <<o.remote[1]>> ELSE o.message

\* the transport's message, whatever the body says
ErrorMessageTransportOnly(o) == o.message

\* the switch on the status shared by chatCompletion and fimCompletion, up to
\* the text of the default case
ClassifyStatus(o, defaultText) ==
    CASE o.status = <<401>> ->
            Thrown("AuthError", <<"Authentication failed. Please check your API key.">>)
      [] o.status = <<429>> ->
            Thrown("RateLimitError", <<"Rate limit exceeded. Please try again later.">>)
      [] o.status = <<500>> ->
            Thrown("ServerError", <<"Mistral API server error. Please try again later.">>)
      [] OTHER ->
            Thrown("UnclassifiedApiError", defaultText)

\* a switch that takes every 5xx status for a server error
ClassifyStatusAll5xx(o, defaultText) ==
    IF o.status # <<>> /\ o.status[1] >= 500 /\ o.status[1] <= 599
    THEN Thrown("ServerError", <<"Mistral API server error. Please try again later.">>)
    ELSE ClassifyStatus(o, defaultText)

\* the switch of the completion operations
Classify(o, defaultText) == ClassifyStatus(o, defaultText)

\* a default text that ignores the remote message
ChatDefaultTextTransportOnly(o) ==
    <<"Mistral API error (", StatusText(o.status), "): ">> \o ErrorMessageTransportOnly(o)

\* `Mistral API error (${status}): ${message}`
ChatDefaultText(o) ==
    <<"Mistral API error (", StatusText(o.status), "): ">> \o ErrorMessage(o)

\* a catch block that swallows the failure and answers with a default
ChatCatchSwallowed(o) == Returned("Response", GoodBody(1))

\* the catch block of chatCompletion
ChatCatch(o) == Classify(o, ChatDefaultText(o))

\* a try block that returns response.data unvalidated
ChatParseUnvalidated(data) == Returned("Response", data)

\* the try block of chatCompletion after the POST resolved
ChatParse(data) ==
    LET issues == CompletionResponseSchema(data)
    IN  IF issues = {} THEN Returned("Response", data) ELSE ZodError(issues)

\* chatCompletion: the result for a transport outcome.  A ZodError is no
\* AxiosError and is rethrown as it is.
chatCompletion(o) ==
    IF o.type = "response" THEN ChatParse(o.data) ELSE ChatCatch(o)

\* `Mistral API error (${status}): ${message}\nResponse: ${JSON.stringify(...)}`
FimDefaultText(o) ==
    <<"Mistral API error (", StatusText(o.status), "): ">> \o ErrorMessage(o)
        \o <<"\nResponse: ">> \o Stringify(o)

\* the catch block of fimCompletion with the default text of chatCompletion
FimCatchAsChat(o) == Classify(o, ChatDefaultText(o))

\* the catch block of fimCompletion for an AxiosError
FimCatch(o) == Classify(o, FimDefaultText(o))

\* fimCompletion: the result for a transport outcome.  A ZodError is no
\* AxiosError and is wrapped in a new Error.
fimCompletion(o) ==
    IF o.type = "response"
    THEN LET issues == CompletionResponseSchema(o.data)
         IN  IF issues = {}
             THEN Returned("Response", o.data)
             ELSE [kind |-> "Error",
                   text |-> <<"Unexpected error during FIM completion: ",
                              "ZodError.message">>,
                   value |-> NoBody,
                   issues |-> issues]
    ELSE FimCatch(o)

\* a probe that reports every failure as a transport error
validateApiKeyNo401(o) ==
    IF o.type = "response" THEN Returned("true", NoBody)
    ELSE Thrown("TransportError", <<"API validation failed: ">> \o o.message)

\* validateApiKey: the result for an outcome of the probe
validateApiKey(o) ==
    IF o.type = "response" THEN Returned("true", NoBody)
    ELSE IF o.status = <<401>>
         THEN Thrown("AuthError", <<"Invalid API key. Please check your Mistral API key.">>)
         ELSE Thrown("TransportError", <<"API validation failed: ">> \o o.message)

(***************************************************************************)
(* createPrompt.  A text is a sequence of tokens: a character, the fence    *)
(* ``` or a literal piece of a template.  An optional string is <<>> when   *)
(* undefined and <<text>> otherwise.                                        *)
(***************************************************************************)
\* the token that stands for the three backticks of a fence
Fence == "<fence>"

Tasks == {"complete", "fix", "test", "fim"}

systemPrompts ==
    [complete |-> "You are an expert programmer. Continue or complete the provided code according to best practices.",
     fix |-> "You are an expert programmer. Analyze the code for bugs and provide a corrected version with explanations of the fixes.",
     test |-> "You are an expert programmer. Generate comprehensive unit tests for the provided code using appropriate testing frameworks.",
     fim |-> "You are an expert programmer. Complete the code between the given start and end sections, ensuring it flows naturally."]

Codes == SeqsUpTo({"x", "\n"}, MaxCodeLen)
Languages == {<<>>, << <<>> >>, << <<"p", "y">> >>}
Suffixes == {<<>>, << <<>> >>, << <<"z">> >>}

\* a string is truthy when it is defined and not empty
Truthy(str) == str # <<>> /\ str[1] # <<>>

\* `${language}` with no fallback
FenceTagRaw(language) == IF language = <<>> THEN <<"undefined">> ELSE language[1]

\* language || ''
FenceTag(language) == IF Truthy(language) THEN language[1] ELSE <<>>

\* language ? ` ${language}` : ''
langStr(language) == IF Truthy(language) THEN <<" ">> \o language[1] ELSE <<>>

\* ```<tag>\n<text>\n```
Fenced(language, text) ==
    <<Fence>> \o FenceTag(language) \o <<"\n">> \o text \o <<"\n", Fence>>

userContent(code, language, task, suffix) ==
    <<"Here is the">> \o langStr(language) \o <<" code:", "\n", "\n">>
        \o Fenced(language, code)
        \o (IF task = "fim" /\ Truthy(suffix)
            THEN <<"\n", "\n", "The code should end with:", "\n", "\n">>
                    \o Fenced(language, suffix[1])
            ELSE <<>>)

\* a builder that gives every task the prompt of 'complete'
createPromptOnePersona(code, language, task, suffix) ==
    <<[role |-> "system", content |-> <<systemPrompts["complete"]>>],
      [role |-> "user", content |-> userContent(code, language, task, suffix)]>>

createPrompt(code, language, task, suffix) ==
    <<[role |-> "system", content |-> <<systemPrompts[task]>>],
      [role |-> "user", content |-> userContent(code, language, task, suffix)]>>

NoPrompt == [called |-> FALSE, task |-> "none", code |-> <<>>, language |-> <<>>,
             suffix |-> <<>>, messages |-> <<>>]

\* the arguments of a call of createPrompt that is about to be made
PromptInputs ==
    {[called |-> FALSE, task |-> task, code |-> code, language |-> language,
      suffix |-> suffix, messages |-> <<>>] :
        task \in Tasks, code \in Codes, language \in Languages, suffix \in Suffixes}

\* the call of createPrompt on the arguments held in prompt
CreatePrompt ==
    /\ instance # NoClient
    /\ prompt.task # "none"
    /\ ~prompt.called
    /\ prompt' = [prompt EXCEPT
                    !.called = TRUE,
                    !.messages = createPrompt(prompt.code, prompt.language,
                                              prompt.task, prompt.suffix)]
    /\ UNCHANGED <<instance, constructed, lastNew, lastGet, started, clock, calls, last,
                   request, formatted, handled>>

(***************************************************************************)
(* formatResponse (index.ts).  A completion text is a sequence of tokens:  *)
(* the fence, a newline, a space, a word character (a, b) or a character   *)
(* that is neither a word character nor whitespace (+).  Backticks occur    *)
(* only as whole fences.                                                   *)
(***************************************************************************)
WordChars == {"a", "b"}

\* the pieces a completion text is made of: plain text, or a fenced block
\* with a language tag and an inner content
Plain(text) == [kind |-> "plain", tag |-> <<>>, text |-> text]
Block(tag, inner) == [kind |-> "block", tag |-> tag, text |-> inner]

Segments ==
    {Plain(t) : t \in {<<"a">>, <<"\n">>, <<"b", " ">>}}
    \cup {Block(tag, inner) :
            tag \in {<<>>, <<"a">>, <<"a", "+">>},
            inner \in {<<"a">>, <<" ", "b", "\n">>, <<"\n", "a", " ", "b", "\n">>}}

SegmentSeqs == SeqsUpTo(Segments, MaxSegments)

\* the text of a segment: a block is fence, tag, newline, inner, fence
RenderSegment(g) ==
    IF g.kind = "plain" THEN g.text
    ELSE <<Fence>> \o g.tag \o <<"\n">> \o g.text \o <<Fence>>

RECURSIVE Render(_)
Render(segs) ==
    IF segs = <<>> THEN <<>> ELSE RenderSegment(Head(segs)) \o Render(Tail(segs))

\* the end of the run of word characters that starts at j: [\w]*
RECURSIVE SkipWord(_, _)
SkipWord(text, j) ==
    IF j <= Len(text) /\ text[j] \in WordChars THEN SkipWord(text, j + 1) ELSE j

\* the first fence at or after k, or 0: the lazy ([\s\S]*?) before ```
RECURSIVE NextFence(_, _)
NextFence(text, k) ==
    IF k > Len(text) THEN 0
    ELSE IF text[k] = Fence THEN k
    ELSE NextFence(text, k + 1)

\* the match of /```[\w]*\n([\s\S]*?)```/ that starts at i: <<>> when there
\* is none, else <<[group |-> the captured text, end |-> its last position]>>
MatchAt(text, i) ==
    IF text[i] # Fence THEN <<>>
    ELSE LET j == SkipWord(text, i + 1)
         IN  IF j > Len(text) \/ text[j] # "\n" THEN <<>>
             ELSE LET k == NextFence(text, j + 1)
                  IN  IF k = 0 THEN <<>>
                      ELSE <<[group |-> SubSeq(text, j + 1, k - 1), end |-> k]>>

\* content.matchAll(codeBlockRegex): the captured groups, left to right
RECURSIVE MatchAll(_, _)
MatchAll(text, i) ==
    IF i > Len(text) THEN <<>>
    ELSE LET m == MatchAt(text, i)
         IN  IF m = <<>> THEN MatchAll(text, i + 1)
             ELSE <<m[1].group>> \o MatchAll(text, m[1].end + 1)

\* parts.join('\n\n')
RECURSIVE Join(_)
Join(parts) ==
    IF parts = <<>> THEN <<>>
    ELSE IF Len(parts) = 1 THEN parts[1]
    ELSE parts[1] \o <<"\n", "\n">> \o Join(Tail(parts))

Formatted(text) == [kind |-> "text", text |-> text]
FormatError(message) == [kind |-> "Error", text |-> <<message>>]

\* a formatter that answers an empty completion with an empty text
formatResponseLenient(choices) ==
    IF Len(choices) = 0 THEN Formatted(<<>>) ELSE Formatted(choices[1])

\* formatResponse(completion); choices is the sequence of the contents of the
\* completion's choices
formatResponse(choices) ==
    IF Len(choices) = 0 THEN FormatError("Invalid completion response")
    ELSE LET content == choices[1]
             matches == MatchAll(content, 1)
         IN  IF Len(matches) > 0
             THEN Formatted(Join([n \in 1..Len(matches) |-> Trim(matches[n])]))
             ELSE Formatted(content)

NoFormat == [called |-> FALSE, segments |-> <<>>, choices |-> <<>>,
             result |-> Formatted(<<>>)]

\* the choices of a completion whose first choice has the given content
ChoicesWith(n, content) == [i \in 1..n |-> IF i = 1 THEN content ELSE <<"b">>]

\* the completions formatResponse is about to be called on: n choices, the
\* first with the text of a sequence of segments
FormatInputs ==
    {[called |-> FALSE, segments |-> segs, choices |-> ChoicesWith(n, Render(segs)),
      result |-> Formatted(<<>>)] :
        n \in 1..MaxChoices, segs \in SegmentSeqs}
    \cup {[called |-> FALSE, segments |-> <<>>, choices |-> <<>>,
           result |-> Formatted(<<>>)]}

\* the call of formatResponse on the completion held in formatted
FormatResponse ==
    /\ instance # NoClient
    /\ ~formatted.called
    /\ formatted' = [formatted EXCEPT
                        !.called = TRUE,
                        !.result = formatResponse(formatted.choices)]
    /\ UNCHANGED <<instance, constructed, lastNew, lastGet, started, clock, calls, last,
                   request, prompt, handled>>

(***************************************************************************)
(* Calls of the client's operations.  Each call is an async function: it   *)
(* runs synchronously up to its first await, which is the await of the     *)
(* transport request, and resumes when the transport settles.              *)
(***************************************************************************)
CallIds == 1..NumCalls

Idle == [pc |-> "idle", op |-> "none", invokedAt |-> 0, sentAt |-> 0, requests |-> 0]

NoLast == [call |-> 0, op |-> "none", outcome |-> Resolved(NoBody), result |-> NoResult]

\* the call record once the request has gone out: the request is issued in
\* the turn that invoked the operation; requests counts the requests the call
\* has handed to the transport
Sent(c, op) ==
    [calls EXCEPT ![c] =
        [pc |-> "inflight", op |-> op, invokedAt |-> clock, sentAt |-> clock,
         requests |-> calls[c].requests + 1]]

(***************************************************************************)
(* Request bodies.  A temperature is given in tenths (0.7 is 7); messages, *)
(* prompt, suffix and stop are passed on as they are and are left out.     *)
(***************************************************************************)
CODESTRAL == "codestral-latest"
CODESTRAL_MAMBA == "codestral-mamba-latest"

\* the options of a call: every key is optional
Options ==
    [model : {<<>>, <<CODESTRAL>>, <<CODESTRAL_MAMBA>>},
     temperature : {<<>>, <<0>>, <<3>>},
     top_p : {<<>>, <<0>>, <<1>>},
     max_tokens : {<<>>, <<0>>, <<500>>}]

\* options = {}
NoOptions == [model |-> <<>>, temperature |-> <<>>, top_p |-> <<>>, max_tokens |-> <<>>]

\* a ?? b
Nullish(a, b) == IF a = <<>> THEN b ELSE a[1]

\* a || b for a number
OrNumber(a, b) == IF a = <<>> \/ a[1] = 0 THEN b ELSE a[1]

\* a || b for a string
OrString(a, b) == IF a = <<>> \/ a[1] = "" THEN b ELSE a[1]

\* a request: the options the caller gave and the body handed to the transport
RequestOf(method, endpoint, options, model, temperature, top_p, max_tokens) ==
    [method |-> method, endpoint |-> endpoint, options |-> options, model |-> model,
     temperature |-> temperature, top_p |-> top_p, max_tokens |-> max_tokens]

NoRequest == RequestOf("none", "none", NoOptions, <<>>, <<>>, <<>>, <<>>)

\* the body chatCompletion posts
ChatRequest(options) ==
    RequestOf("POST", "/chat/completions", options,
              <<OrString(options.model, CODESTRAL)>>,
              <<Nullish(options.temperature, 7)>>,
              <<Nullish(options.top_p, 1)>>,
              <<Nullish(options.max_tokens, 1000)>>)

\* a body built with || in place of ??
FimRequestOr(options) ==
    RequestOf("POST", "/fim/completions", options,
              <<CODESTRAL>>,
              <<OrNumber(options.temperature, 0)>>,
              <<OrNumber(options.top_p, 1)>>,
              <<OrNumber(options.max_tokens, 1000)>>)

\* the body fimCompletion posts
FimRequest(options) ==
    RequestOf("POST", "/fim/completions", options,
              <<CODESTRAL>>,
              <<Nullish(options.temperature, 0)>>,
              <<Nullish(options.top_p, 1)>>,
              <<Nullish(options.max_tokens, 1000)>>)

\* the probe of validateApiKey
ProbeRequest == RequestOf("GET", "/models", NoOptions, <<>>, <<>>, <<>>, <<>>)

CanSend(c) == instance # NoClient /\ calls[c].pc = "idle"
CanSettle(c, op) == calls[c].pc = "inflight" /\ calls[c].op = op

\* chatCompletion up to its await: the POST goes out at once; nothing reads
\* or writes lastRequestTime
ChatSend(c, options) ==
    /\ CanSend(c)
    /\ calls' = Sent(c, "chatCompletion")
    /\ request' = ChatRequest(options)
    /\ UNCHANGED <<instance, constructed, lastNew, lastGet, started, clock, last, prompt, formatted, handled>>

\* chatCompletion after its await: the transport settled with outcome o
ChatSettle(c, o) ==
    /\ CanSettle(c, "chatCompletion")
    /\ calls' = [calls EXCEPT ![c].pc = "done"]
    /\ last' = [call |-> c, op |-> "chatCompletion", outcome |-> o,
                result |-> chatCompletion(o)]
    /\ UNCHANGED <<instance, constructed, lastNew, lastGet, started, clock, request, prompt, formatted, handled>>

\* fimCompletion up to its await
FimSend(c, options) ==
    /\ CanSend(c)
    /\ calls' = Sent(c, "fimCompletion")
    /\ request' = FimRequest(options)
    /\ UNCHANGED <<instance, constructed, lastNew, lastGet, started, clock, last, prompt, formatted, handled>>

\* fimCompletion after its await
FimSettle(c, o) ==
    /\ CanSettle(c, "fimCompletion")
    /\ calls' = [calls EXCEPT ![c].pc = "done"]
    /\ last' = [call |-> c, op |-> "fimCompletion", outcome |-> o,
                result |-> fimCompletion(o)]
    /\ UNCHANGED <<instance, constructed, lastNew, lastGet, started, clock, request, prompt, formatted, handled>>

\* validateApiKey up to its await: the GET /models probe goes out
ValidateSend(c) ==
    /\ CanSend(c)
    /\ calls' = Sent(c, "validateApiKey")
    /\ request' = ProbeRequest
    /\ UNCHANGED <<instance, constructed, lastNew, lastGet, started, clock, last, prompt, formatted, handled>>

\* validateApiKey after its await
ValidateSettle(c, o) ==
    /\ CanSettle(c, "validateApiKey")
    /\ calls' = [calls EXCEPT ![c].pc = "done"]
    /\ last' = [call |-> c, op |-> "validateApiKey", outcome |-> o,
                result |-> validateApiKey(o)]
    /\ UNCHANGED <<instance, constructed, lastNew, lastGet, started, clock, request, prompt, formatted, handled>>

(***************************************************************************)
(* The tool-call handler of index.ts.                                      *)
(***************************************************************************)
ToolNames == {"code_completion", "other_tool"}

\* request.params.arguments: code and language may be absent; task is one of
\* the enum's values, another string, or absent
ToolArgs ==
    [code : {<<>>, << <<"x">> >>},
     language : {<<>>, << <<"p", "y">> >>},
     task : {"complete", "fix", "test", "fim", "undefined"}]

NoArgs == [code |-> <<>>, language |-> <<>>, task |-> "undefined"]

\* the issues of CodeCompletionSchema.parse(args)
CodeCompletionSchema(args) ==
    (IF args.code = <<>> THEN {"code"} ELSE {})
    \cup (IF args.task \notin {"complete", "fix", "test"} THEN {"task"} ELSE {})

\* the texts of the first choice of a completion the handler receives
Contents == {Render(segs) : segs \in SeqsUpTo(Segments, 1)}

\* what the handler hands back: a payload it returns, or an error it throws
Payload(text, isError) == [kind |-> "payload", text |-> text, isError |-> isError]
HandlerThrown(text) == [kind |-> "thrown", text |-> text, isError |-> FALSE]
NoPayload == [kind |-> "none", text |-> <<>>, isError |-> FALSE]

\* the payload of the catch block: `Error: ${error.message}`, isError: true
ErrorPayload(message) == Payload(<<"Error: ">> \o message, TRUE)

NoHandled == [pc |-> "idle", name |-> "none", args |-> NoArgs, messages |-> <<>>,
              result |-> NoPayload]

\* the handler up to its await: an unknown name throws, invalid arguments are
\* caught, and otherwise the prompt is built and chatCompletion posts it
CallTool(name, args) ==
    /\ instance # NoClient
    /\ handled.pc = "idle"
    /\ calls[1].pc = "idle"
    /\ IF name # "code_completion"
       THEN /\ handled' = [pc |-> "done", name |-> name, args |-> args, messages |-> <<>>,
                           result |-> HandlerThrown(<<"Unknown tool: ", name>>)]
            /\ UNCHANGED <<calls, request>>
       ELSE IF CodeCompletionSchema(args) # {}
       THEN /\ handled' = [pc |-> "done", name |-> name, args |-> args, messages |-> <<>>,
                           result |-> ErrorPayload(ZodError(CodeCompletionSchema(args)).text)]
            /\ UNCHANGED <<calls, request>>
       ELSE /\ handled' = [pc |-> "awaiting", name |-> name, args |-> args,
                           messages |-> createPrompt(args.code[1], args.language,
                                                     args.task, <<>>),
                           result |-> NoPayload]
            /\ calls' = Sent(1, "chatCompletion")
            /\ request' = ChatRequest(NoOptions)
    /\ UNCHANGED <<instance, constructed, lastNew, lastGet, started, clock, last, prompt,
                   formatted>>

\* the handler after its await: chatCompletion settled on outcome o and, when
\* it returned a response, content is the text of its first choice
CallToolSettle(o, content) ==
    /\ handled.pc = "awaiting"
    /\ CanSettle(1, "chatCompletion")
    /\ calls' = [calls EXCEPT ![1].pc = "done"]
    /\ last' = [call |-> 1, op |-> "chatCompletion", outcome |-> o,
                result |-> chatCompletion(o)]
    /\ LET completion == chatCompletion(o)
       IN  IF completion.kind # "Response"
           THEN /\ content = <<>>
                /\ handled' = [handled EXCEPT !.pc = "done",
                                              !.result = ErrorPayload(completion.text)]
           ELSE LET n == Len(completion.value.choices.items)
                    text == formatResponse(ChoicesWith(n, content))
                IN  /\ n = 0 => content = <<>>
                    /\ handled' = [handled EXCEPT
                                     !.pc = "done",
                                     !.result = IF text.kind = "Error"
                                                THEN ErrorPayload(text.text)
                                                ELSE Payload(text.text, FALSE)]
    /\ UNCHANGED <<instance, constructed, lastNew, lastGet, started, clock, request, prompt,
                   formatted>>

\* Date.now() advances
Tick ==
    /\ clock + TickMs <= StartClock + MaxTicks * TickMs
    /\ clock' = clock + TickMs
    /\ UNCHANGED <<instance, constructed, lastNew, lastGet, started, calls, last, request, prompt, formatted, handled>>

(***************************************************************************)
(* Specifications.                                                         *)
(***************************************************************************)
\* the module as loaded: no instance yet
Init ==
    /\ instance = NoClient
    /\ constructed = 0
    /\ lastNew = NoNew
    /\ lastGet = NoGet
    /\ started = FALSE
    /\ clock = StartClock
    /\ calls = [c \in CallIds |-> Idle]
    /\ last = NoLast
    /\ request = NoRequest
    /\ prompt = NoPrompt
    /\ formatted = NoFormat
    /\ handled = NoHandled

EnvKey == <<"k">>

\* the client after a successful start-up: index.ts got it from getMistralAPI
ReadyClient ==
    /\ instance = MistralAPI(EnvKey, 1)
    /\ constructed = 1
    /\ lastNew = [arg |-> EnvKey, outcome |-> "ok", client |-> MistralAPI(EnvKey, 1)]
    /\ lastGet = [caller |-> "index", arg |-> EnvKey, outcome |-> "ok",
                  returned |-> MistralAPI(EnvKey, 1), previous |-> "none"]
    /\ started = TRUE
    /\ clock = StartClock
    /\ calls = [c \in CallIds |-> Idle]
    /\ last = NoLast
    /\ request = NoRequest
    /\ handled = NoHandled

\* the server after a successful start-up
InitReady ==
    /\ ReadyClient
    /\ prompt = NoPrompt
    /\ formatted = NoFormat

\* the server about to build a prompt
InitPrompt ==
    /\ ReadyClient
    /\ prompt \in PromptInputs
    /\ formatted = NoFormat

\* the server about to format a completion
InitFormat ==
    /\ ReadyClient
    /\ prompt = NoPrompt
    /\ formatted \in FormatInputs

\* the singleton and its callers
NextSingleton == IndexGetMistralAPI \/ BusinessPlanMistralAPI

SpecSingleton == Init /\ [][NextSingleton]_vars

\* the operations of the client and every outcome of the transport
Next ==
    \/ \E c \in CallIds : ChatSend(c, NoOptions)
    \/ \E c \in CallIds : FimSend(c, NoOptions)
    \/ \E c \in CallIds : ValidateSend(c)
    \/ \E c \in CallIds, o \in Outcomes : ChatSettle(c, o)
    \/ \E c \in CallIds, o \in Outcomes : FimSettle(c, o)
    \/ \E c \in CallIds, o \in ProbeOutcomes : ValidateSettle(c, o)

Spec == InitReady /\ [][Next]_vars

\* the completion operations in time; the outcomes are one success and one
\* failure, since the timing of a call does not depend on its outcome
TimingOutcomes == {Resolved(GoodBody(1)), Rejected(429, <<>>)}

NextTiming ==
    \/ Tick
    \/ \E c \in CallIds : ChatSend(c, NoOptions)
    \/ \E c \in CallIds : FimSend(c, NoOptions)
    \/ \E c \in CallIds, o \in TimingOutcomes : ChatSettle(c, o)
    \/ \E c \in CallIds, o \in TimingOutcomes : FimSettle(c, o)

SpecTiming == InitReady /\ [][NextTiming]_vars

\* the operations of the client with every choice of options
NextRequest ==
    \/ \E c \in CallIds, options \in Options : ChatSend(c, options)
    \/ \E c \in CallIds, options \in Options : FimSend(c, options)
    \/ \E c \in CallIds : ValidateSend(c)
    \/ \E c \in CallIds, o \in TimingOutcomes : ChatSettle(c, o)
    \/ \E c \in CallIds, o \in TimingOutcomes : FimSettle(c, o)
    \/ \E c \in CallIds, o \in {Resolved(NoBody), Rejected(401, <<>>)} :
          ValidateSettle(c, o)

SpecRequest == InitReady /\ [][NextRequest]_vars

\* the prompt builder on every input
NextPrompt == CreatePrompt

SpecPrompt == InitPrompt /\ [][NextPrompt]_vars

\* the extractor on every completion
NextFormat == FormatResponse

SpecFormat == InitFormat /\ [][NextFormat]_vars

\* the tool-call handler on every request and every outcome of the transport
NextTool ==
    \/ \E name \in ToolNames, args \in ToolArgs : CallTool(name, args)
    \/ \E o \in Outcomes, content \in Contents : CallToolSettle(o, content)

SpecTool == InitReady /\ [][NextTool]_vars

(***************************************************************************)
(* Properties.                                                             *)
(***************************************************************************)
Completions == {"chatCompletion", "fimCompletion"}

\* the completion calls whose request has gone out
SentCompletions == {c \in CallIds : calls[c].pc # "idle" /\ calls[c].op \in Completions}

Distance(a, b) == IF a >= b THEN a - b ELSE b - a

\* C1: two completion calls invoked at the same instant (back-to-back, 0 ms
\* apart) have their requests go out at least minRequestInterval apart.
C1_BackToBackSpacing ==
    \A i \in SentCompletions, j \in SentCompletions :
        (i # j /\ calls[i].invokedAt = calls[j].invokedAt)
            => Distance(calls[i].sentAt, calls[j].sentAt) >= minRequestInterval

\* C2: no update of lastRequestTime is lost when calls race: for two calls in
\* flight together, the timestamp reflects the write of both, and they did not
\* start within the minimum interval of each other.
C2_NoLostUpdate ==
    \A i \in SentCompletions, j \in SentCompletions :
        (i # j /\ calls[i].pc = "inflight" /\ calls[j].pc = "inflight") =>
            /\ instance[1].lastRequestTime >= calls[i].sentAt
            /\ instance[1].lastRequestTime >= calls[j].sentAt
            /\ Distance(calls[i].sentAt, calls[j].sentAt) >= minRequestInterval

\* C3: once a completion call has sent its request, lastRequestTime has been
\* set by the pacing step and is no longer at its initial value.
C3_PacedBeforePost ==
    SentCompletions # {} => instance[1].lastRequestTime # initialLastRequestTime

\* C4: at most one instance is ever constructed, every successful
\* getMistralAPI returns it, and the instance returned for a credential is the
\* one built with that credential.
C4_SingletonKeyedByCredential ==
    /\ constructed <= 1
    /\ lastGet.outcome = "ok" =>
          /\ lastGet.returned = instance
          /\ lastGet.returned[1].apiKey = Trim(lastGet.arg)

AllWhitespace(s) == \A i \in 1..Len(s) : s[i] \in Whitespace

\* t is s without its leading and trailing whitespace
IsStripped(s, t) ==
    /\ t # <<>>
    /\ t[1] \notin Whitespace
    /\ t[Len(t)] \notin Whitespace
    /\ \E i \in 1..Len(s) :
          /\ i + Len(t) - 1 <= Len(s)
          /\ t = SubSeq(s, i, i + Len(t) - 1)
          /\ AllWhitespace(SubSeq(s, 1, i - 1))
          /\ AllWhitespace(SubSeq(s, i + Len(t), Len(s)))

\* C5: the constructor fails, yielding no client, exactly for the credentials
\* that are empty or all whitespace; otherwise the stored credential is the
\* input without its leading and trailing whitespace, and the bearer header is
\* derived from the stored credential.
C5_Construction ==
    lastNew.outcome # "none" =>
        /\ AllWhitespace(lastNew.arg) <=> lastNew.outcome = "ConfigError"
        /\ lastNew.outcome = "ConfigError" => lastNew.client = NoClient
        /\ lastNew.outcome = "ok" =>
              /\ lastNew.client # NoClient
              /\ IsStripped(lastNew.arg, lastNew.client[1].apiKey)
              /\ lastNew.client[1].Authorization
                    = <<"Bearer ">> \o lastNew.client[1].apiKey

\* a construction that had whitespace to remove
C5_Witness ==
    /\ lastNew.outcome = "ok"
    /\ lastNew.client[1].apiKey # lastNew.arg

HasRemoteMessage(o) == o.remote # <<>> /\ o.remote # <<"">>

\* C6: a failed chatCompletion transport call is classified by the status
\* alone: 401, 429 and 500 give AuthError, RateLimitError and ServerError, and
\* every other outcome gives UnclassifiedApiError with the status and the
\* remote message if the body has a (non-empty) one, else the transport's.
C6_ChatClassification ==
    (last.op = "chatCompletion" /\ last.outcome.type = "AxiosError") =>
        LET o == last.outcome
            r == last.result
        IN  /\ o.status = <<401>> => r.kind = "AuthError"
            /\ o.status = <<429>> => r.kind = "RateLimitError"
            /\ o.status = <<500>> => r.kind = "ServerError"
            /\ o.status \notin {<<401>>, <<429>>, <<500>>} =>
                  /\ r.kind = "UnclassifiedApiError"
                  /\ r.text = <<"Mistral API error (", StatusText(o.status), "): ">>
                        \o (IF HasRemoteMessage(o) THEN o.remote ELSE o.message)

\* an unclassified chat failure that carries the remote message
C6_Witness ==
    /\ last.op = "chatCompletion"
    /\ last.result.kind = "UnclassifiedApiError"
    /\ HasRemoteMessage(last.outcome)

Is5xx(status) == status # <<>> /\ status[1] >= 500 /\ status[1] <= 599

\* C7 as stated: every 5xx answer to a completion call is a ServerError.
C7_Every5xxIsServerError ==
    (last.op \in Completions /\ last.outcome.type = "AxiosError"
        /\ Is5xx(last.outcome.status))
        => last.result.kind = "ServerError"

\* C7 as amended: of the 5xx answers to a completion call, status 500 is a
\* ServerError and every other one is an UnclassifiedApiError carrying its
\* status.
C7_Only500IsServerError ==
    (last.op \in Completions /\ last.outcome.type = "AxiosError"
        /\ Is5xx(last.outcome.status))
        => IF last.outcome.status = <<500>>
           THEN last.result.kind = "ServerError"
           ELSE /\ last.result.kind = "UnclassifiedApiError"
                /\ last.result.text[2] = StatusText(last.outcome.status)

\* a 503 answer to a completion call
C7_Witness ==
    /\ last.op \in Completions
    /\ last.outcome.status = <<503>>
    /\ last.result.kind = "UnclassifiedApiError"

\* no field the schema requires is absent from a response value
NoRequiredFieldAbsent(v) ==
    /\ v.id # "undefined" /\ v.object # "undefined"
    /\ v.created # "undefined" /\ v.model # "undefined"
    /\ v.choices.t # "undefined"
    /\ \A i \in 1..Len(v.choices.items) :
          /\ v.choices.items[i].index # "undefined"
          /\ v.choices.items[i].message.t # "undefined"
          /\ v.choices.items[i].message.role # "undefined"
          /\ v.choices.items[i].message.content # "undefined"
    /\ v.usage.t # "undefined"
    /\ v.usage.prompt_tokens # "undefined"
    /\ v.usage.completion_tokens # "undefined"
    /\ v.usage.total_tokens # "undefined"

\* C8: a 2xx body that does not match the schema makes chatCompletion fail
\* with the schema error and return no value, and a response chatCompletion
\* returns has no required field absent.
C8_SchemaError ==
    (last.op = "chatCompletion" /\ last.outcome.type = "response") =>
        /\ SchemaIssues(last.outcome.data) # {} =>
              /\ last.result.kind = "SchemaError"
              /\ last.result.value = NoBody
        /\ ~NoRequiredFieldAbsent(last.outcome.data) => last.result.kind # "Response"
        /\ last.result.kind = "Response" => NoRequiredFieldAbsent(last.result.value)

\* a chat response without usage
C8_Witness ==
    /\ last.op = "chatCompletion"
    /\ last.outcome.type = "response"
    /\ last.outcome.data.usage.t = "undefined"
    /\ last.result.kind = "SchemaError"

\* C9 as stated: fimCompletion gives, for every transport outcome, the result
\* chatCompletion gives for it.
C9_FimSameAsChat ==
    last.op = "fimCompletion" => last.result = chatCompletion(last.outcome)

\* C9 as amended: for a valid 2xx body and for the statuses 401, 429 and 500
\* the two operations give the same result; for any other transport failure
\* both give an UnclassifiedApiError with the same text, which fimCompletion
\* extends by the serialized response data; for a schema-invalid 2xx body
\* chatCompletion throws the schema error and fimCompletion a generic error
\* that wraps its message, and neither returns a value.
C9_FimAgainstChat ==
    last.op = "fimCompletion" =>
        LET o == last.outcome
            r == last.result
            c == chatCompletion(o)
        IN  /\ (o.type = "response" /\ SchemaIssues(o.data) = {}) => r = c
            /\ (o.type = "response" /\ SchemaIssues(o.data) # {}) =>
                  /\ c.kind = "SchemaError"
                  /\ r.kind = "Error"
                  /\ r.text = <<"Unexpected error during FIM completion: ">> \o c.text
                  /\ r.issues = c.issues
                  /\ r.value = NoBody /\ c.value = NoBody
            /\ (o.type = "AxiosError" /\ o.status \in {<<401>>, <<429>>, <<500>>}) => r = c
            /\ (o.type = "AxiosError" /\ o.status \notin {<<401>>, <<429>>, <<500>>}) =>
                  /\ r.kind = "UnclassifiedApiError"
                  /\ c.kind = "UnclassifiedApiError"
                  /\ r.text = c.text \o <<"\nResponse: ">> \o Stringify(o)

\* an unclassified fim failure
C9_Witness ==
    /\ last.op = "fimCompletion"
    /\ last.result.kind = "UnclassifiedApiError"

\* C10: validateApiKey returns success when the probe succeeds, fails with
\* AuthError when the probe's status is 401, and fails with TransportError
\* carrying the underlying message for every other failure.
C10_ValidateCredential ==
    last.op = "validateApiKey" =>
        LET o == last.outcome
            r == last.result
        IN  /\ o.type = "response" => r.kind = "true"
            /\ (o.type = "AxiosError" /\ o.status = <<401>>) => r.kind = "AuthError"
            /\ (o.type = "AxiosError" /\ o.status # <<401>>) =>
                  /\ r.kind = "TransportError"
                  /\ r.text = <<"API validation failed: ">> \o o.message

\* a probe rejected with 401
C10_Witness ==
    /\ last.op = "validateApiKey"
    /\ last.outcome.status = <<401>>
    /\ last.result.kind = "AuthError"

\* C19: a getMistralAPI call whose construction fails installs no instance;
\* a call with a valid credential that follows a failed one constructs a fresh
\* client from that credential and returns it; no call returns a client whose
\* credential is empty.
C19_FailedConstructionLeavesSlotUnset ==
    /\ lastGet.outcome = "ConfigError" =>
          /\ instance = NoClient
          /\ lastGet.returned = NoClient
          /\ constructed = 0
    /\ (lastGet.previous = "ConfigError" /\ ~AllWhitespace(lastGet.arg)) =>
          /\ lastGet.outcome = "ok"
          /\ constructed = 1
          /\ lastGet.returned = instance
          /\ lastGet.returned = lastNew.client
          /\ lastNew.arg = lastGet.arg
          /\ IsStripped(lastGet.arg, lastGet.returned[1].apiKey)
    /\ lastGet.returned # NoClient => lastGet.returned[1].apiKey # <<>>

\* a valid call right after a failed one
C19_Witness ==
    /\ lastGet.previous = "ConfigError"
    /\ lastGet.outcome = "ok"
    /\ lastGet.returned # NoClient

\* C16 as stated: a response returned by chatCompletion or fimCompletion has
\* at least one choice.
C16_ChoicesNonEmpty ==
    (last.op \in Completions /\ last.result.kind = "Response")
        => Len(last.result.value.choices.items) >= 1

Failed(o) == o.type = "AxiosError" \/ SchemaIssues(o.data) # {}

\* C17: a call hands at most one request to the transport, and when that
\* request fails (or, for a completion, its body is invalid) the call ends
\* with an error, having issued no second request.
C17_OneRequestNoSwallow ==
    /\ \A c \in CallIds :
          /\ calls[c].requests <= 1
          /\ calls[c].pc # "idle" => calls[c].requests = 1
    /\ (last.op \in Completions /\ Failed(last.outcome)) =>
          /\ last.result.kind \notin {"Response", "true", "none"}
          /\ last.result.value = NoBody
          /\ calls[last.call].pc = "done"
          /\ calls[last.call].requests = 1
    /\ (last.op = "validateApiKey" /\ last.outcome.type = "AxiosError") =>
          /\ last.result.kind \notin {"Response", "true", "none"}
          /\ calls[last.call].pc = "done"
          /\ calls[last.call].requests = 1

\* a chat call that failed with a status outside the switch
C17_Witness ==
    /\ last.op = "chatCompletion"
    /\ last.outcome.status = <<502>>
    /\ calls[last.call].requests = 1

\* C18: the body fimCompletion posts names the primary model whatever the
\* options say, carries temperature 0, top_p 1 and max_tokens 1000 for the
\* options left absent, and carries a given value, 0 included, unchanged.
C18_FimRequestBody ==
    request.endpoint = "/fim/completions" =>
        /\ request.model = <<"codestral-latest">>
        /\ request.temperature =
              (IF request.options.temperature = <<>> THEN <<0>>
               ELSE request.options.temperature)
        /\ request.top_p =
              (IF request.options.top_p = <<>> THEN <<1>> ELSE request.options.top_p)
        /\ request.max_tokens =
              (IF request.options.max_tokens = <<>> THEN <<1000>>
               ELSE request.options.max_tokens)

\* a fim request whose options name the other model and give zeros
C18_Witness ==
    /\ request.endpoint = "/fim/completions"
    /\ request.options.model = <<"codestral-mamba-latest">>
    /\ request.options.top_p = <<0>>
    /\ request.options.max_tokens = <<0>>
    /\ request.options.temperature = <<>>

\* C12: createPrompt returns exactly two messages, the first with role system
\* holding the fixed prompt of the task kind, the second with role user.
C12_TwoMessages ==
    prompt.called =>
        /\ Len(prompt.messages) = 2
        /\ prompt.messages[1].role = "system"
        /\ prompt.messages[1].content = <<systemPrompts[prompt.task]>>
        /\ \A t \in Tasks \ {prompt.task} :
              prompt.messages[1].content # <<systemPrompts[t]>>
        /\ prompt.messages[2].role = "user"

\* a prompt built for fill-in-the-middle with a suffix
C12_Witness ==
    /\ prompt.called
    /\ prompt.task = "fim"
    /\ Truthy(prompt.suffix)
    /\ Len(prompt.messages) = 2

\* the fenced block of the claim: fence, tag (empty when the language is
\* absent), newline, code, newline, fence
BlockOf(language, code) ==
    <<Fence>> \o (IF language = <<>> THEN <<>> ELSE language[1])
        \o <<"\n">> \o code \o <<"\n", Fence>>

NoSuffixCase == prompt.task \in {"complete", "fix", "test"} \/ prompt.suffix = <<>>

RECURSIVE Inners(_)
Inners(segs) ==
    IF segs = <<>> THEN <<>>
    ELSE (IF Head(segs).kind = "block" THEN <<Head(segs).text>> ELSE <<>>)
            \o Inners(Tail(segs))

\* C14: for a text with fenced blocks the extractor returns the inner content
\* of every block, trimmed, in order, joined by a blank line; for a text
\* without a fenced block it returns the text unchanged.
C14_ExtractsEveryBlock ==
    (formatted.called /\ Len(formatted.choices) > 0) =>
        LET inners == Inners(formatted.segments)
        IN  /\ formatted.result.kind = "text"
            /\ formatted.result.text =
                  (IF inners = <<>> THEN formatted.choices[1]
                   ELSE Join([n \in 1..Len(inners) |-> Trim(inners[n])]))

\* C15: applied to a response with no choices the extractor fails with the
\* empty-completion error and returns no text; a text is returned only for a
\* response with a choice.
C15_EmptyCompletionError ==
    formatted.called =>
        /\ Len(formatted.choices) = 0 =>
              /\ formatted.result.kind = "Error"
              /\ formatted.result.text = <<"Invalid completion response">>
        /\ formatted.result.kind = "text" => Len(formatted.choices) > 0

\* the extractor applied to a response with no choices
C15_Witness ==
    /\ formatted.called
    /\ Len(formatted.choices) = 0
    /\ formatted.result.kind = "Error"

\* the message of the failure of a finished tool call, <<>> when it succeeded
ToolFailure ==
    IF handled.name # "code_completion" THEN << <<"Unknown tool: ", handled.name>> >>
    ELSE IF CodeCompletionSchema(handled.args) # {} THEN << <<"ZodError.message">> >>
    ELSE IF last.result.kind # "Response" THEN <<last.result.text>>
    ELSE IF Len(last.result.value.choices.items) = 0
         THEN << <<"Invalid completion response">> >>
    ELSE <<>>

\* C11: every failure of a tool call (invalid arguments, a client error, an
\* empty completion, an unrecognised tool name) comes back as a text payload
\* that holds the error's message and is flagged isError, a success is not
\* flagged, and the handler never throws.
C11_EveryFailureIsErrorPayload ==
    handled.pc = "done" =>
        /\ handled.result.kind = "payload"
        /\ ToolFailure # <<>> => handled.result = ErrorPayload(ToolFailure[1])
        /\ ToolFailure = <<>> => ~handled.result.isError

====
